---- MODULE Spec2Model ----
(***************************************************************************)
(* Model of src/ingest.py: the customer ingestion job.                     *)
(*   get_new_token          (lines 12-30)   login, returns a token or None *)
(*   fetch_customer_data    (lines 33-96)   one page, retry with backoff   *)
(*   write_customers_to_csv (lines 99-196)  the driver                     *)
(*   __main__               (lines 215-252) runs the driver, then uploads  *)
(* The HTTP server, the clock and S3 are the environment: every response   *)
(* is a nondeterministic input of the step that receives it.               *)
(***************************************************************************)
EXTENDS Integers, Sequences, FiniteSets, TLC

\* ---------------------------------------------------------------- bounds
\* largest total_pages the server reports in the metadata
MaxPages == 3
\* largest number of records in one page
MaxRecords == 1
\* largest max_retries of a direct call of fetch_customer_data
MaxRetriesArg == 6

\* ------------------------------------------------------ program constants
\* def fetch_customer_data(page_number, token, max_retries=5)
DefaultMaxRetries == 5

\* ------------------------------------------------------- Python values
None == [type |-> "NoneType"]
Tok(n) == [type |-> "str", token |-> n]
TOKEN_EXPIRED == [type |-> "str", val |-> "TOKEN_EXPIRED"]
\* Python truthiness of the values the driver tests: None is falsy, a
\* token string and the four-key summary dict are truthy
Truthy(v) == v # None

\* the body of a 200 reply of GET /customers?page=p: total_pages tp, k records
Payload(p, tp, k) ==
    [type |-> "dict",
     metadata |-> [total_pages |-> tp],
     data |-> [i \in 1..k |-> <<p, i>>]]

\* what requests.get() gives: an HTTP status, or an exception
Http(s) == [kind |-> "http", status |-> s]
Timeout == [kind |-> "Timeout", status |-> 0]
OtherException == [kind |-> "Exception", status |-> 0]
Responses == {Http(200), Http(429), Http(500), Http(503), Http(403),
              Http(404), Timeout, OtherException}
LoginStatuses == {200, 401}

RECURSIVE Pow2(_)
Pow2(n) == IF n = 0 THEN 1 ELSE 2 * Pow2(n - 1)

Min(a, b) == IF a < b THEN a ELSE b

\* the request counter of a call is exact up to R + 1 and stays there: a
\* call that meets no unrecognized status sends at most R = max_retries
\* requests
RequestCap(R) == R + 1

VARIABLES
    pc,                \* position of __main__ / write_customers_to_csv
    token,             \* the driver's token
    page_number,       \* loop variable of the for loop (1 before the loop)
    total_pages,
    page_requested, successful_pages, failed_pages, records_ingested,
    csvfile,           \* "none", "open", "closed"
    rows,              \* rows handed to writer.writerow, in order
    summary,           \* return value of write_customers_to_csv
    uploads,           \* number of upload_to_s3 calls
    \* ---- fetch_customer_data, the call in progress
    fpc,               \* "idle", "while", "request", "returned"
    f_page, f_token, max_retries,
    attempt,
    sleeps,            \* durations passed to time.sleep in this call
    requests,          \* number of requests.get calls of this call (capped)
    ret,               \* the returned tuple (success, data)
    outcome,           \* which return statement produced ret
    \* ---- history
    fetch_log,         \* one entry per finished fetch_customer_data call
    auth_log           \* one entry per get_new_token call

driverVars == <<pc, token, page_number, total_pages, page_requested,
                successful_pages, failed_pages, records_ingested, csvfile,
                rows, summary, uploads>>
fetchVars == <<fpc, f_page, f_token, max_retries, attempt, sleeps, requests,
               ret, outcome>>
vars == <<driverVars, fetchVars, fetch_log, auth_log>>

NoRet == [success |-> FALSE, data |-> None]

\* ------------------------------------------------------- get_new_token
\* variant: the status of the login reply is not looked at
get_new_token_AnyStatus(status, n) == Tok(n)

\* lines 22-30: the token of a 200 reply, None otherwise; n names the
\* token the login endpoint hands out on this call
get_new_token(status, n) == IF status = 200 THEN Tok(n) ELSE None

\* the token returned by the most recent successful get_new_token call
RECURSIVE LastIssued(_)
LastIssued(log) ==
    IF log = <<>> THEN None
    ELSE IF Truthy(log[Len(log)].result) THEN log[Len(log)].result
    ELSE LastIssued(SubSeq(log, 1, Len(log) - 1))

\* ------------------------------------------------- fetch_customer_data
\* lines 33-42: entry of the call
FetchCall(p, t, R) ==
    /\ fpc' = "while"
    /\ f_page' = p
    /\ f_token' = t
    /\ max_retries' = R
    /\ attempt' = 0
    /\ sleeps' = <<>>
    /\ requests' = 0
    /\ ret' = NoRet
    /\ outcome' = "none"

\* the caller has taken the returned tuple; the locals are gone
FetchDone ==
    /\ fpc' = "idle"
    /\ f_page' = 0
    /\ f_token' = None
    /\ max_retries' = 0
    /\ attempt' = 0
    /\ sleeps' = <<>>
    /\ requests' = 0
    /\ ret' = NoRet
    /\ outcome' = "none"

\* a return statement of fetch_customer_data
FetchReturn(label, success, data) ==
    /\ fpc' = "returned"
    /\ ret' = [success |-> success, data |-> data]
    /\ outcome' = label
    /\ fetch_log' = Append(fetch_log,
           [page |-> f_page, token |-> f_token, outcome |-> label,
            n |-> IF success THEN Len(data.data) ELSE 0])

\* variant: the timeout branch always waits one second
WaitTime_TimeoutFixed(resp, a) ==
    IF resp = Http(429) THEN Pow2(a) + 1
    ELSE IF resp = Timeout THEN 1
    ELSE Pow2(a)

\* variant: the rate-limit branch waits like the server-error branch
WaitTime_NoExtraSecond(resp, a) == Pow2(a)

\* lines 54-56 and 64, 82: the backoff of a retryable failure
WaitTime(resp, a) ==
    IF resp = Http(429) THEN Pow2(a) + 1 ELSE Pow2(a)

\* lines 58-61, 68-69, 86-87: sleep, then count the attempt
Backoff(resp) ==
    /\ sleeps' = Append(sleeps, WaitTime(resp, attempt))
    /\ attempt' = attempt + 1
    /\ fpc' = "while"
    /\ UNCHANGED <<ret, outcome, fetch_log>>

\* line 96: the tuple returned when the retries are used up
ExhaustedValue == [success |-> FALSE, data |-> None]
\* line 91: the tuple returned after an unclassified exception
FatalValue == [success |-> FALSE, data |-> None]

\* variant: the loop admits one more pass
LoopCondition_Inclusive(a, R) == a <= R

\* line 44: while attempt < max_retries
LoopCondition(a, R) == a < R

\* line 44, and lines 93-96 when the loop ends
FetchWhile ==
    /\ fpc = "while"
    /\ IF LoopCondition(attempt, max_retries)
       THEN /\ fpc' = "request"
            /\ UNCHANGED <<ret, outcome, fetch_log>>
       ELSE FetchReturn("Exhausted", ExhaustedValue.success,
                        ExhaustedValue.data)
    /\ UNCHANGED <<f_page, f_token, max_retries, attempt, sleeps, requests>>
    /\ UNCHANGED <<driverVars, auth_log>>

\* variant: the reply's records are dropped from the returned page
OnSuccess_EmptyData(tp, k) ==
    /\ FetchReturn("Success", TRUE, Payload(f_page, tp, 0))
    /\ UNCHANGED <<attempt, sleeps>>

\* lines 50-51: return True, response.json()
OnSuccess(tp, k) ==
    /\ FetchReturn("Success", TRUE, Payload(f_page, tp, k))
    /\ UNCHANGED <<attempt, sleeps>>

\* variant: a 403 is retried like a server error
OnForbidden_Retried == Backoff(Http(403))

\* lines 71-76: return False, "TOKEN_EXPIRED"
OnForbidden ==
    /\ FetchReturn("TokenExpired", FALSE, TOKEN_EXPIRED)
    /\ UNCHANGED <<attempt, sleeps>>

\* variant: an unrecognized status counts as an attempt
OnUnrecognized_Counted ==
    /\ fpc' = "while"
    /\ attempt' = attempt + 1
    /\ UNCHANGED <<sleeps, ret, outcome, fetch_log>>

\* lines 78-79: print, nothing else; the loop goes round
OnUnrecognized ==
    /\ fpc' = "while"
    /\ UNCHANGED <<attempt, sleeps, ret, outcome, fetch_log>>

\* variant: any exception is retried like a timeout
OnException_Retried == Backoff(Timeout)

\* lines 89-91: return False, None
OnException ==
    /\ FetchReturn("FatalError", FatalValue.success, FatalValue.data)
    /\ UNCHANGED <<attempt, sleeps>>

\* lines 45-91: one pass of the loop body, the server answering resp (and,
\* on a 200, a body with total_pages tp and k records)
FetchRequest(resp, tp, k) ==
    /\ fpc = "request"
    /\ requests' = Min(requests + 1, RequestCap(max_retries))
    /\ IF resp = Http(200)
       THEN OnSuccess(tp, k)
       ELSE IF resp \in {Http(429), Http(500), Http(503)}
       THEN Backoff(resp)
       ELSE IF resp = Http(403)
       THEN OnForbidden
       ELSE IF resp.kind = "http"
       THEN OnUnrecognized
       ELSE IF resp = Timeout
       THEN Backoff(resp)
       ELSE OnException
    /\ UNCHANGED <<f_page, f_token, max_retries>>
    /\ UNCHANGED <<driverVars, auth_log>>

Fetch ==
    \/ FetchWhile
    \/ \E resp \in Responses, tp \in 0..MaxPages, k \in 0..MaxRecords :
          /\ (resp # Http(200) => tp = 0 /\ k = 0)
          /\ FetchRequest(resp, tp, k)

\* ---------------------------------------------- write_customers_to_csv
Summary ==
    [type |-> "dict",
     pages_requested |-> page_requested,
     successful_pages |-> successful_pages,
     failed_pages |-> failed_pages,
     records_ingested |-> records_ingested]

LogAuth(status, result) ==
    auth_log' = Append(auth_log,
        [page |-> IF pc = "start" THEN 0 ELSE page_number,
         status |-> status, result |-> result])

\* lines 101-123: login; without a token return None, else open the file,
\* zero the counters and ask for page 1
Start(status) ==
    /\ pc = "start"
    /\ LET t == get_new_token(status, Len(auth_log) + 1) IN
       /\ LogAuth(status, t)
       /\ token' = t
       /\ IF ~Truthy(t)
          THEN /\ pc' = "returned"
               /\ summary' = None
               /\ UNCHANGED <<csvfile, fetchVars>>
          ELSE /\ pc' = "first_page"
               /\ csvfile' = "open"
               /\ FetchCall(1, t, DefaultMaxRetries)
               /\ UNCHANGED summary
    /\ page_requested' = 0
    /\ successful_pages' = 0
    /\ failed_pages' = 0
    /\ records_ingested' = 0
    /\ UNCHANGED <<page_number, total_pages, rows, uploads, fetch_log>>

\* variant: a failed page 1 returns the (zero) counters instead of None
AbortFirstPage_ReturnsSummary ==
    /\ pc' = "returned"
    /\ summary' = Summary
    /\ csvfile' = "closed"

\* lines 125-127: page 1 failed; leave the with block, return None
AbortFirstPage ==
    /\ pc' = "returned"
    /\ summary' = None
    /\ csvfile' = "closed"

\* lines 125-147: page 1 came back
FirstPage ==
    /\ pc = "first_page"
    /\ fpc = "returned"
    /\ IF ~ret.success
       THEN /\ AbortFirstPage
            /\ UNCHANGED <<total_pages, rows, records_ingested,
                           page_requested, successful_pages>>
       ELSE /\ total_pages' = ret.data.metadata.total_pages
            /\ rows' = rows \o ret.data.data
            /\ records_ingested' = records_ingested + Len(ret.data.data)
            /\ page_requested' = page_requested + 1
            /\ successful_pages' = successful_pages + 1
            /\ pc' = "for"
            /\ UNCHANGED <<summary, csvfile>>
    /\ FetchDone
    /\ UNCHANGED <<token, page_number, failed_pages, uploads, fetch_log,
                   auth_log>>

\* variant: range(2, total_pages), the last page is left out
HasNextPage_LastExcluded(p, N) == p + 1 < N

\* line 149: range(2, total_pages + 1) has a page after p
HasNextPage(p, N) == p + 1 <= N

\* lines 149-152: the next page of range(2, total_pages + 1)
ForNext ==
    /\ pc = "for"
    /\ HasNextPage(page_number, total_pages)
    /\ page_number' = page_number + 1
    /\ page_requested' = page_requested + 1
    /\ FetchCall(page_number + 1, token, DefaultMaxRetries)
    /\ pc' = "page_fetch"
    /\ UNCHANGED <<token, total_pages, successful_pages, failed_pages,
                   records_ingested, csvfile, rows, summary, uploads,
                   fetch_log, auth_log>>

\* lines 189-196: the loop is over; close the file, return the counters
ReturnSummary ==
    /\ csvfile' = "closed"
    /\ summary' = Summary
    /\ pc' = "returned"

ForEnd ==
    /\ pc = "for"
    /\ ~HasNextPage(page_number, total_pages)
    /\ ReturnSummary
    /\ UNCHANGED <<token, page_number, total_pages, page_requested,
                   successful_pages, failed_pages, records_ingested, rows,
                   uploads, fetchVars, fetch_log, auth_log>>

\* variant: the row loop starts at the second record of the page
Account_SkipsFirstRow(r) ==
    IF r.success
    THEN LET d == IF r.data.data = <<>> THEN <<>> ELSE Tail(r.data.data)
         IN /\ rows' = rows \o d
            /\ records_ingested' = records_ingested + Len(d)
            /\ successful_pages' = successful_pages + 1
            /\ UNCHANGED failed_pages
    ELSE /\ failed_pages' = failed_pages + 1
         /\ UNCHANGED <<rows, records_ingested, successful_pages>>

\* variant: the else branch does not count the failure
Account_FailureNotCounted(r) ==
    IF r.success
    THEN /\ rows' = rows \o r.data.data
         /\ records_ingested' = records_ingested + Len(r.data.data)
         /\ successful_pages' = successful_pages + 1
         /\ UNCHANGED failed_pages
    ELSE UNCHANGED <<rows, records_ingested, successful_pages, failed_pages>>

\* variant: records_ingested is bumped once per page, not once per row
Account_OncePerPage(r) ==
    IF r.success
    THEN /\ rows' = rows \o r.data.data
         /\ records_ingested' = records_ingested + 1
         /\ successful_pages' = successful_pages + 1
         /\ UNCHANGED failed_pages
    ELSE /\ failed_pages' = failed_pages + 1
         /\ UNCHANGED <<rows, records_ingested, successful_pages>>

\* lines 164-187: write the page's rows and count it, or count a failure
Account(r) ==
    IF r.success
    THEN /\ rows' = rows \o r.data.data
         /\ records_ingested' = records_ingested + Len(r.data.data)
         /\ successful_pages' = successful_pages + 1
         /\ UNCHANGED failed_pages
    ELSE /\ failed_pages' = failed_pages + 1
         /\ UNCHANGED <<rows, records_ingested, successful_pages>>

\* line 154
IsExpired(r) == ~r.success /\ r.data = TOKEN_EXPIRED

\* lines 154, 164-187: the page came back and the token did not expire
PageFetched ==
    /\ pc = "page_fetch"
    /\ fpc = "returned"
    /\ ~IsExpired(ret)
    /\ Account(ret)
    /\ pc' = "for"
    /\ FetchDone
    /\ UNCHANGED <<token, page_number, total_pages, page_requested, csvfile,
                   summary, uploads, fetch_log, auth_log>>

\* line 156, "token + get_new_token()": an expression statement.  str + None
\* raises TypeError; str + str is computed and dropped.  The token after it.
RefreshStatement(old, new) ==
    [raised |-> (new = None), token |-> old]

\* lines 154-162: the token expired; log in again and ask once more
RefreshToken(status) ==
    /\ pc = "page_fetch"
    /\ fpc = "returned"
    /\ IsExpired(ret)
    /\ LET new == get_new_token(status, Len(auth_log) + 1)
           st == RefreshStatement(token, new)
       IN /\ LogAuth(status, new)
          /\ IF st.raised
             THEN \* TypeError leaves the with block and the function
                  /\ pc' = "raised"
                  /\ csvfile' = "closed"
                  /\ FetchDone
                  /\ UNCHANGED <<token, summary>>
             ELSE /\ token' = st.token
                  /\ IF ~Truthy(st.token)
                     THEN \* lines 158-160: break
                          /\ ReturnSummary
                          /\ FetchDone
                     ELSE /\ pc' = "retry_fetch"
                          /\ FetchCall(page_number, st.token,
                                       DefaultMaxRetries)
                          /\ UNCHANGED <<csvfile, summary>>
    /\ UNCHANGED <<page_number, total_pages, page_requested,
                   successful_pages, failed_pages, records_ingested, rows,
                   uploads, fetch_log>>

\* variant: a retry that expires again is neither written nor counted
RetryFetched_ExpiryDropped ==
    /\ pc = "retry_fetch"
    /\ fpc = "returned"
    /\ IF IsExpired(ret)
       THEN UNCHANGED <<rows, records_ingested, successful_pages,
                        failed_pages>>
       ELSE Account(ret)
    /\ pc' = "for"
    /\ FetchDone
    /\ UNCHANGED <<token, page_number, total_pages, page_requested, csvfile,
                   summary, uploads, fetch_log, auth_log>>

\* lines 162-187: the second fetch of the page came back
RetryFetched ==
    /\ pc = "retry_fetch"
    /\ fpc = "returned"
    /\ Account(ret)
    /\ pc' = "for"
    /\ FetchDone
    /\ UNCHANGED <<token, page_number, total_pages, page_requested, csvfile,
                   summary, uploads, fetch_log, auth_log>>

\* ------------------------------------------------------------ __main__
\* variant: the upload is not guarded by "if summary"
MainNoSummary_Uploads ==
    /\ pc = "returned"
    /\ ~Truthy(summary)
    /\ uploads' = uploads + 1
    /\ pc' = "exit"
    /\ UNCHANGED <<token, page_number, total_pages, page_requested,
                   successful_pages, failed_pages, records_ingested, csvfile,
                   rows, summary, fetchVars, fetch_log, auth_log>>

\* lines 226-238: upload when the driver returned a summary
MainUpload ==
    /\ pc = "returned"
    /\ Truthy(summary)
    /\ uploads' = uploads + 1
    /\ pc' = "exit"
    /\ UNCHANGED <<token, page_number, total_pages, page_requested,
                   successful_pages, failed_pages, records_ingested, csvfile,
                   rows, summary, fetchVars, fetch_log, auth_log>>

\* line 228: no summary, nothing to do
MainNoSummary ==
    /\ pc = "returned"
    /\ ~Truthy(summary)
    /\ pc' = "exit"
    /\ UNCHANGED <<token, page_number, total_pages, page_requested,
                   successful_pages, failed_pages, records_ingested, csvfile,
                   rows, summary, uploads, fetchVars, fetch_log, auth_log>>

\* ------------------------------------------------------ specifications
DriverInit ==
    /\ token = None
    /\ page_number = 1
    /\ total_pages = 0
    /\ page_requested = 0
    /\ successful_pages = 0
    /\ failed_pages = 0
    /\ records_ingested = 0
    /\ csvfile = "none"
    /\ rows = <<>>
    /\ summary = None
    /\ uploads = 0
    /\ fetch_log = <<>>
    /\ auth_log = <<>>

FetchIdle ==
    /\ fpc = "idle"
    /\ f_page = 0
    /\ f_token = None
    /\ max_retries = 0
    /\ attempt = 0
    /\ sleeps = <<>>
    /\ requests = 0
    /\ ret = NoRet
    /\ outcome = "none"

\* the job: python ingest.py
Init ==
    /\ pc = "start"
    /\ DriverInit
    /\ FetchIdle

Next ==
    \/ \E status \in LoginStatuses : Start(status)
    \/ Fetch
    \/ FirstPage
    \/ ForNext
    \/ ForEnd
    \/ PageFetched
    \/ \E status \in LoginStatuses : RefreshToken(status)
    \/ RetryFetched
    \/ MainUpload
    \/ MainNoSummary

Spec == Init /\ [][Next]_vars

\* the program runs on as long as it has a step to take
FairSpec == Spec /\ WF_vars(Next)

\* one call fetch_customer_data(p, token, R) on its own
FetchInit ==
    /\ pc = "call"
    /\ DriverInit
    /\ fpc = "while"
    /\ f_page \in 1..MaxPages
    /\ f_token = Tok(1)
    /\ max_retries \in 0..MaxRetriesArg
    /\ attempt = 0
    /\ sleeps = <<>>
    /\ requests = 0
    /\ ret = NoRet
    /\ outcome = "none"

FetchSpec == FetchInit /\ [][Fetch]_vars

FairFetchSpec == FetchSpec /\ WF_vars(Fetch)

\* a server that answers every request with 429
RateLimitedNext ==
    \/ FetchWhile
    \/ FetchRequest(Http(429), 0, 0)

RateLimitedSpec == FetchInit /\ [][RateLimitedNext]_vars

FairRateLimitedSpec == RateLimitedSpec /\ WF_vars(RateLimitedNext)

\* ------------------------------------------------------------ properties
\* write_customers_to_csv returned a summary
Complete == pc \in {"returned", "exit"} /\ Truthy(summary)
\* write_customers_to_csv returned None
ReturnedNone == pc \in {"returned", "exit"} /\ ~Truthy(summary)
\* a fetch_customer_data call is running
Fetching == fpc \in {"while", "request"}

EntriesOf(p) == {i \in DOMAIN fetch_log : fetch_log[i].page = p}
AuthsOf(p) == {i \in DOMAIN auth_log : auth_log[i].page = p}
PagesLogged == {fetch_log[i].page : i \in DOMAIN fetch_log}
LastEntry(p) ==
    fetch_log[CHOOSE i \in EntriesOf(p) : \A j \in EntriesOf(p) : j <= i]
FinalSuccess(p) == LastEntry(p).outcome = "Success"

RECURSIVE SumRecords(_)
SumRecords(S) ==
    IF S = {} THEN 0
    ELSE LET p == CHOOSE q \in S : TRUE
         IN (IF FinalSuccess(p) THEN LastEntry(p).n ELSE 0)
            + SumRecords(S \ {p})

\* C1: whenever write_customers_to_csv returns a summary, its
\* pages_requested equals successful_pages + failed_pages.
C1_RequestedIsSucceededPlusFailed ==
    Complete =>
        summary.pages_requested
            = summary.successful_pages + summary.failed_pages

\* a finished run with a failed page and a page retried after a refresh
C1_Witness ==
    /\ Complete
    /\ summary.failed_pages >= 1
    /\ summary.successful_pages >= 2
    /\ Len(auth_log) >= 2

\* C2: at every fetch the token sent is the one returned by the most recent
\* successful get_new_token call; in particular the retry after a refresh
\* carries the refreshed token.
C2_FetchUsesLatestToken ==
    (pc # "call" /\ Fetching) => f_token = LastIssued(auth_log)

\* C3: when the login after a TokenExpired outcome fails, the driver notices
\* it and ends the run in the Aborted state (it returns), with no further
\* fetch and no further row.
C3_FailedRefreshAborts ==
    (\E i \in DOMAIN auth_log :
        auth_log[i].page >= 2 /\ auth_log[i].status # 200)
    => /\ pc \in {"returned", "exit"}
       /\ fpc = "idle"
       /\ Cardinality(EntriesOf(page_number)) = 1

\* C4: at completion records_ingested is the sum of the record counts of the
\* pages whose final outcome was Success, each once, and successful_pages is
\* the number of those pages; a page that expired and then succeeded on the
\* retry counts once.
C4_RecordsOfSuccessfulPages ==
    Complete =>
        /\ summary.records_ingested = SumRecords(PagesLogged)
        /\ summary.records_ingested = Len(rows)
        /\ summary.successful_pages
              = Cardinality({p \in PagesLogged : FinalSuccess(p)})

\* a finished run where a page expired and then came back with records
C4_Witness ==
    /\ Complete
    /\ \E i \in DOMAIN fetch_log :
          /\ i + 1 \in DOMAIN fetch_log
          /\ fetch_log[i].outcome = "TokenExpired"
          /\ fetch_log[i + 1].page = fetch_log[i].page
          /\ fetch_log[i + 1].outcome = "Success"
          /\ fetch_log[i + 1].n = MaxRecords
    /\ summary.records_ingested > MaxRecords

\* C5: when the first login fails nothing else happens: no fetch, no page
\* requested, no row, no file, and the driver returns None.
C5_InitialAuthFailure ==
    (auth_log # <<>> /\ auth_log[1].status # 200)
    => /\ ReturnedNone
       /\ Len(auth_log) = 1
       /\ fetch_log = <<>>
       /\ fpc = "idle"
       /\ requests = 0
       /\ page_requested = 0
       /\ rows = <<>>
       /\ csvfile = "none"
       /\ uploads = 0

C5_Witness ==
    /\ auth_log # <<>>
    /\ auth_log[1].status # 200
    /\ pc = "exit"

\* C6: when the fetch of page 1 does not succeed the run is aborted: no login
\* follows, no other fetch, no row, and the driver returns None.
C6_FirstPageFailure ==
    (fetch_log # <<>> /\ fetch_log[1].outcome # "Success")
    => /\ pc = "first_page" \/ ReturnedNone
       /\ Len(auth_log) = 1
       /\ Len(fetch_log) = 1
       /\ ~(pc # "first_page" /\ fpc # "idle")
       /\ rows = <<>>
       /\ records_ingested = 0
       /\ summary = None
       /\ uploads = 0

\* page 1 answered 403 and the program is over
C6_Witness ==
    /\ fetch_log # <<>>
    /\ fetch_log[1].outcome = "TokenExpired"
    /\ pc = "exit"

\* a login failed after the run had begun paging
RefreshFailed ==
    \E i \in DOMAIN auth_log : auth_log[i].page >= 2 /\ auth_log[i].status # 200

\* C7: a page of 2..total_pages that ends in Exhausted or FatalError adds
\* exactly 1 to failed_pages, writes nothing and lets the loop go on; so,
\* unless a login fails, the paging loop always reaches Complete.
C7_PageFailureNeverAborts ==
    /\ [][(/\ pc \in {"page_fetch", "retry_fetch"}
           /\ fpc = "returned"
           /\ outcome \in {"Exhausted", "FatalError"})
          => (/\ failed_pages' = failed_pages + 1
              /\ rows' = rows
              /\ pc' = "for")]_vars
    /\ (pc = "for") ~> (Complete \/ RefreshFailed)

\* number of fetch_customer_data calls made for page p so far
CallsOf(p) ==
    Cardinality(EntriesOf(p)) + (IF Fetching /\ f_page = p THEN 1 ELSE 0)
FirstEntry(p) ==
    fetch_log[CHOOSE i \in EntriesOf(p) : \A j \in EntriesOf(p) : i <= j]

C8_AtMostOneRetry ==
    \A p \in 2..page_number :
        /\ CallsOf(p) <= 2
        /\ Cardinality(AuthsOf(p)) <= 1
        /\ CallsOf(p) = 2 =>
              /\ FirstEntry(p).outcome = "TokenExpired"
              /\ \E i \in AuthsOf(p) : auth_log[i].status = 200

C8_RetryIsFinal ==
    (pc = "retry_fetch" /\ fpc = "returned")
    => /\ pc' = "for"
       /\ page_number' = page_number
       /\ auth_log' = auth_log
       /\ fetch_log' = fetch_log
       /\ IF ret.success
          THEN /\ successful_pages' = successful_pages + 1
               /\ failed_pages' = failed_pages
          ELSE /\ failed_pages' = failed_pages + 1
               /\ successful_pages' = successful_pages

C8_NextPage ==
    (pc = "for")
    => \/ pc' = "page_fetch" /\ f_page' = page_number + 1
       \/ Complete'

\* C8: for each page of 2..total_pages the driver fetches at most twice and
\* logs in at most once, the second fetch only after a TokenExpired; the
\* retry's outcome is final: a success is counted as a successful page,
\* anything else (also a second TokenExpired) as a failed one, and the loop
\* moves to the next page.
C8_SingleRetryAfterExpiry ==
    /\ []C8_AtMostOneRetry
    /\ [][C8_RetryIsFinal]_vars
    /\ [][C8_NextPage]_vars

\* page 2 expired twice, was counted failed, and page 3 is being fetched
C8_Witness ==
    /\ Cardinality(EntriesOf(2)) = 2
    /\ LastEntry(2).outcome = "TokenExpired"
    /\ failed_pages = 1
    /\ Fetching
    /\ f_page = 3

\* C9: every fetch_customer_data call returns, with one of the four
\* outcomes, whatever the server answers; and a loop left because attempt
\* reached max_retries returns Exhausted.
C9_FetchAlwaysReturns ==
    /\ <>(/\ fpc = "returned"
          /\ outcome \in {"Success", "TokenExpired", "Exhausted",
                          "FatalError"})
    /\ [][(fpc = "while" /\ attempt >= max_retries)
          => outcome' = "Exhausted"]_vars

C10_Backoff ==
    /\ attempt <= max_retries
    /\ requests = attempt
    /\ Len(sleeps) = attempt
    /\ \A i \in 0..(Len(sleeps) - 1) : sleeps[i + 1] = Pow2(i) + 1
    /\ fpc = "returned" =>
          /\ outcome = "Exhausted"
          /\ requests = max_retries
          /\ Len(sleeps) = max_retries

\* C10: a call with max_retries = R whose every response is 429 sends
\* exactly R requests, sleeps exactly R times, the i-th sleep (i = 0..R-1)
\* lasting 2^i + 1 seconds, and returns Exhausted.
C10_AlwaysRateLimited ==
    /\ []C10_Backoff
    /\ <>(fpc = "returned" /\ outcome = "Exhausted")

\* the call with the largest R has returned after R sleeps
C10_Witness ==
    /\ fpc = "returned"
    /\ max_retries = MaxRetriesArg
    /\ Len(sleeps) = MaxRetriesArg
    /\ sleeps[MaxRetriesArg] = Pow2(MaxRetriesArg - 1) + 1

\* a server that answers retryable failures, then possibly a page
RetryableResponses == {Http(429), Http(500), Http(503), Timeout}

RetryableNext ==
    \/ FetchWhile
    \/ \E resp \in RetryableResponses : FetchRequest(resp, 0, 0)
    \/ \E tp \in 0..MaxPages, k \in 0..MaxRecords :
          FetchRequest(Http(200), tp, k)

RetryableSpec == FetchInit /\ [][RetryableNext]_vars

C11_ForbiddenStep ==
    FetchRequest(Http(403), 0, 0)
    => /\ fpc' = "returned"
       /\ outcome' = "TokenExpired"
       /\ ret' = [success |-> FALSE, data |-> TOKEN_EXPIRED]
       /\ sleeps' = sleeps
       /\ attempt' = attempt

C11_NoRequestAfterReturn ==
    (fpc = "returned") => (fpc' # "request" /\ requests' = requests)

C11_FirstResponse ==
    (outcome = "TokenExpired" /\ requests = 1)
    => (sleeps = <<>> /\ attempt = 0)

\* C11: a 403 at any attempt makes fetch_customer_data return TokenExpired
\* at once: no sleep for it, attempt not incremented, no further request;
\* when the 403 is the first response the call has not slept at all.
C11_ForbiddenReturnsImmediately ==
    /\ [][C11_ForbiddenStep]_vars
    /\ [][C11_NoRequestAfterReturn]_vars
    /\ []C11_FirstResponse

\* a 403 that came after two retryable failures
C11_Witness ==
    /\ fpc = "returned"
    /\ outcome = "TokenExpired"
    /\ attempt = 2
    /\ Len(sleeps) = 2
    /\ max_retries > 2

C12_SuccessStep ==
    \A tp \in 0..MaxPages, k \in 0..MaxRecords :
        FetchRequest(Http(200), tp, k)
        => /\ fpc' = "returned"
           /\ outcome' = "Success"
           /\ ret' = [success |-> TRUE, data |-> Payload(f_page, tp, k)]

C12_Counts ==
    (fpc = "returned" /\ outcome = "Success")
    => /\ attempt < max_retries
       /\ Len(sleeps) = attempt
       /\ requests = attempt + 1

\* C12: for k < max_retries, k retryable failures (429, 500, 503, timeout,
\* in any mix) followed by a 200 give Success with that reply's page, after
\* exactly k sleeps and k + 1 requests.
C12_SuccessAfterRetries ==
    /\ [][C12_SuccessStep]_vars
    /\ []C12_Counts

\* a page with records that came after a 429 and a non-429 failure, at the
\* last admitted attempt
C12_Witness ==
    /\ fpc = "returned"
    /\ outcome = "Success"
    /\ max_retries = MaxRetriesArg
    /\ attempt = MaxRetriesArg - 1
    /\ sleeps[1] = 2
    /\ sleeps[2] = 2
    /\ Len(ret.data.data) = MaxRecords

\* every fetch_customer_data call so far returned a page
AllFetchesSucceeded ==
    \A i \in DOMAIN fetch_log : fetch_log[i].outcome = "Success"

RECURSIVE SumLogged(_)
SumLogged(log) ==
    IF log = <<>> THEN 0
    ELSE log[Len(log)].n + SumLogged(SubSeq(log, 1, Len(log) - 1))

\* C13: when page 1 reports total_pages = N >= 1 and every page 1..N is
\* fetched successfully, the summary is pages_requested = N,
\* successful_pages = N, failed_pages = 0 and records_ingested = the number
\* of records of the N pages, after exactly one login and one fetch call per
\* page.
C13_AllPagesSucceed ==
    (Complete /\ total_pages >= 1 /\ AllFetchesSucceeded)
    => /\ summary.pages_requested = total_pages
       /\ summary.successful_pages = total_pages
       /\ summary.failed_pages = 0
       /\ summary.records_ingested = SumLogged(fetch_log)
       /\ Len(auth_log) = 1
       /\ Len(fetch_log) = total_pages
       /\ \A i \in DOMAIN fetch_log : fetch_log[i].page = i

\* MaxPages pages of MaxRecords records each, all fetched
C13_Witness ==
    /\ Complete
    /\ AllFetchesSucceeded
    /\ total_pages = MaxPages
    /\ summary.pages_requested = MaxPages
    /\ summary.records_ingested = MaxPages * MaxRecords
    /\ pc = "exit"

\* the pages whose outcome the driver has already accounted
Settled(p) ==
    /\ EntriesOf(p) # {}
    /\ p < page_number
       \/ pc \notin {"start", "first_page", "page_fetch", "retry_fetch"}

\* the records of page p as the server sent them, when p ended in Success
RowsOfPage(p) ==
    IF Settled(p) /\ FinalSuccess(p)
    THEN [i \in 1..LastEntry(p).n |-> <<p, i>>]
    ELSE <<>>

RECURSIVE RowsUpTo(_)
RowsUpTo(p) == IF p = 0 THEN <<>> ELSE RowsUpTo(p - 1) \o RowsOfPage(p)

C14_FetchOrder ==
    /\ fetch_log # <<>> => fetch_log[1].page = 1
    /\ \A i \in DOMAIN fetch_log :
          i + 1 \in DOMAIN fetch_log =>
              \/ fetch_log[i + 1].page = fetch_log[i].page + 1
              \/ /\ fetch_log[i + 1].page = fetch_log[i].page
                 /\ fetch_log[i].outcome = "TokenExpired"

UnrecognizedStatuses == {401, 404, 502}

UnrecognizedNext ==
    \/ FetchWhile
    \/ \E s \in UnrecognizedStatuses : FetchRequest(Http(s), 0, 0)

UnrecognizedSpec == FetchInit /\ [][UnrecognizedNext]_vars

FairUnrecognizedSpec == UnrecognizedSpec /\ WF_vars(UnrecognizedNext)

C15_UnrecognizedStep ==
    \A s \in UnrecognizedStatuses :
        FetchRequest(Http(s), 0, 0)
        => /\ attempt' = attempt
           /\ sleeps' = sleeps
           /\ outcome' = outcome
           /\ fpc' = "while"

C15_NeverReturns ==
    max_retries >= 1 => (fpc # "returned" /\ attempt = 0 /\ sleeps = <<>>)

\* C15: a status that is none of 200, 429, 500, 503, 403 leaves attempt
\* unchanged, causes no sleep and is followed by the next request; a server
\* that answers only such statuses keeps the call from ever returning, for
\* any max_retries >= 1.
C15_UnrecognizedLoopsForever ==
    /\ [][C15_UnrecognizedStep]_vars
    /\ []C15_NeverReturns
    /\ []<>(max_retries >= 1 => fpc = "request")

\* max_retries = 1 and the call is about to send yet another request after
\* more than max_retries of them
C15_Witness ==
    /\ max_retries = 1
    /\ requests = RequestCap(1)
    /\ fpc = "request"
    /\ attempt = 0

C16_RetryStep ==
    \A resp \in RetryableResponses :
        FetchRequest(resp, 0, 0)
        => /\ sleeps' = Append(sleeps,
                  Pow2(Len(sleeps)) + (IF resp = Http(429) THEN 1 ELSE 0))
           /\ attempt' = attempt + 1

C16_OneCounter ==
    /\ Len(sleeps) = attempt
    /\ \A j \in 0..(Len(sleeps) - 1) :
          sleeps[j + 1] \in {Pow2(j), Pow2(j) + 1}

\* C16: the retryable failures of a call share one attempt counter: the
\* j-th of them (j = 0, 1, ...) sleeps 2^j seconds when it is a 500, a 503
\* or a timeout and 2^j + 1 seconds when it is a 429, whatever the earlier
\* ones were, and then adds exactly 1 to attempt.
C16_SharedAttemptCounter ==
    /\ [][C16_RetryStep]_vars
    /\ []C16_OneCounter

\* a 429, a server error or timeout, a 429, a server error or timeout
C16_Witness ==
    /\ attempt = 4
    /\ sleeps = <<2, 2, 5, 8>>

C17_ExceptionStep ==
    FetchRequest(OtherException, 0, 0)
    => /\ fpc' = "returned"
       /\ outcome' = "FatalError"
       /\ ret'.success = FALSE
       /\ sleeps' = sleeps
       /\ attempt' = attempt

C17_Final ==
    (fpc = "returned" /\ outcome = "FatalError")
    => (fpc' = "returned" /\ requests' = requests /\ sleeps' = sleeps)

\* C17: an exception other than a timeout makes fetch_customer_data return
\* FatalError at once at any attempt: no sleep, no attempt increment and no
\* further request, even when attempt < max_retries.
C17_ExceptionReturnsImmediately ==
    /\ [][C17_ExceptionStep]_vars
    /\ [][C17_Final]_vars

\* an exception after one retryable failure, with retries left
C17_Witness ==
    /\ fpc = "returned"
    /\ outcome = "FatalError"
    /\ attempt = 1
    /\ max_retries >= 3
    /\ requests = 2

\* C18: the value fetch_customer_data returns for FatalError differs from
\* the value it returns for Exhausted.
C18_FatalDistinctFromExhausted ==
    (fpc = "returned" /\ outcome = "FatalError") => ret # ExhaustedValue

\* C19: upload_to_s3 is called only after write_customers_to_csv returned a
\* summary, and then exactly once; a run that was aborted (first login
\* failed, page 1 failed, refresh failed) never uploads.
C19_UploadOnlyAfterSummary ==
    /\ uploads <= 1
    /\ uploads = 1 => (Complete /\ pc = "exit")
    /\ (Complete /\ pc = "exit") => uploads = 1
    /\ (ReturnedNone \/ pc = "raised" \/ RefreshFailed) => uploads = 0

\* a finished run with a failed page has uploaded once
C19_Witness ==
    /\ pc = "exit"
    /\ uploads = 1
    /\ summary.failed_pages >= 1

\* C20: during a fetch_customer_data call 0 <= attempt <= max_retries, the
\* number of sleeps so far equals attempt, and a request is sent only while
\* attempt < max_retries; with max_retries = 0 the call returns Exhausted
\* without sending a request.
C20_AttemptBounds ==
    /\ 0 <= attempt
    /\ attempt <= max_retries
    /\ Len(sleeps) = attempt
    /\ fpc = "request" => attempt < max_retries
    /\ requests > 0 => max_retries > 0
    /\ (max_retries = 0 /\ fpc = "returned")
          => (outcome = "Exhausted" /\ requests = 0 /\ sleeps = <<>>)

\* the call with max_retries = 0 has returned
C20_Witness ==
    /\ max_retries = 0
    /\ fpc = "returned"
    /\ outcome = "Exhausted"
    /\ requests = 0

====
